---- MODULE Spec2Model ----
(***************************************************************************)
(* Model of validate_bot.py: the pre-flight validator of the bot project.  *)
(* The state is the part of the world the script reads or writes (the      *)
(* working directory and the importable libraries) and the locals of       *)
(* main(); one action per call main() makes.                               *)
(***************************************************************************)
EXTENDS Integers, Sequences, FiniteSets

(***************************************************************************)
(* Bounds of the model.                                                    *)
(***************************************************************************)
\* Number of pieces the text of .env is assembled from (InitEnv).
MaxFrags == 4
\* Number of successive invocations of the script.
MaxRuns == 2
\* Number of required files / command modules missing initially.
MaxMissing == 1

(***************************************************************************)
(* Text.  A text is a sequence of one-character strings, so that `in`      *)
(* (substring search) is computed and not assumed.                         *)
(***************************************************************************)
DISCORD_TOKEN == <<"D","I","S","C","O","R","D","_","T","O","K","E","N">>
OWNER_ID      == <<"O","W","N","E","R","_","I","D">>
PREFIX        == <<"P","R","E","F","I","X">>

\* required_vars of check_env_file, in its order.
required_vars == <<DISCORD_TOKEN, OWNER_ID, PREFIX>>

\* Pieces a .env text is made of: the three key names, the two halves of
\* one of them, a comment mark and an assignment with a line end.
Fragments ==
    { DISCORD_TOKEN, OWNER_ID, PREFIX,
      <<"D","I","S","C","O","R","D","_">>, <<"T","O","K","E","N">>,
      <<"#"," ">>, <<"=","x","\n">> }

RECURSIVE Texts(_)
Texts(n) ==
    IF n = 0 THEN { <<>> }
    ELSE LET shorter == Texts(n - 1)
         IN  shorter \cup { t \o f : t \in shorter, f \in Fragments }

\* A complete .env and one lacking the PREFIX line.
FullText == DISCORD_TOKEN \o <<"=","x","\n">> \o OWNER_ID \o <<"=","x","\n">>
            \o PREFIX \o <<"=","x","\n">>
NoPrefixText == <<"#"," ">> \o OWNER_ID \o <<"=","x","\n">> \o DISCORD_TOKEN

(***************************************************************************)
(* The fixed lists of the script.                                          *)
(***************************************************************************)
required_files == <<"bot.py", "data_manager.py", "requirements.txt">>

required_commands == <<"economy.py", "teams.py", "marketplace.py",
                       "moderation.py", "server_build.py", "help_admin.py">>

libraries == <<"discord", "dotenv", "aiofiles">>

checks == << <<"Environment File", "check_env_file">>,
             <<"Required Files",   "check_required_files">>,
             <<"Commands Modules", "check_commands_folder">>,
             <<"Data Folder",      "check_data_folder">>,
             <<"Dependencies",     "check_dependencies">> >>

Range(s) == { s[k] : k \in 1..Len(s) }

(***************************************************************************)
(* check_env_file                                                          *)
(***************************************************************************)
\* A bug `content.startswith(var)` in place of `var in content`.
StartsWith(content, var) ==
    /\ Len(var) <= Len(content)
    /\ SubSeq(content, 1, Len(var)) = var

\* `var in content` for two strings: var occurs at some offset of content.
Contains(content, var) ==
    \E k \in 1..(Len(content) - Len(var) + 1) :
        SubSeq(content, k, k + Len(var) - 1) = var

\* The loop of lines 27-31: the required names not found, in list order.
MissingVars(content) ==
    SelectSeq(required_vars, LAMBDA var : ~Contains(content, var))

\* env is the entry .env: kind "absent", "file" (readable text) or
\* "unreadable" (exists() is true and open()/read() raises OSError or
\* UnicodeDecodeError: a directory, no read permission, undecodable bytes).
check_env_file(env) ==
    IF env.kind = "absent"
    THEN [raised |-> FALSE, ret |-> FALSE, missing |-> <<>>]
    ELSE IF env.kind = "unreadable"
    THEN [raised |-> TRUE, ret |-> FALSE, missing |-> <<>>]
    ELSE LET missing == MissingVars(env.text)
         IN  [raised |-> FALSE, ret |-> (missing = <<>>), missing |-> missing]

(***************************************************************************)
(* check_required_files                                                    *)
(***************************************************************************)
check_required_files(f) ==
    \A k \in 1..Len(required_files) : required_files[k] \in f.files

(***************************************************************************)
(* check_commands_folder                                                   *)
(***************************************************************************)
\* A bug: all_exist is never cleared when a module is missing.
check_commands_folder_keeps_all_exist(f) == f.commandsDir

check_commands_folder(f) ==
    IF ~f.commandsDir
    THEN FALSE
    ELSE \A k \in 1..Len(required_commands) : required_commands[k] \in f.modules

(***************************************************************************)
(* check_data_folder                                                       *)
(***************************************************************************)
\* A bug: is_file() in place of exists().
DataExistsIsFile(d) == d = "file"

\* Path('data').exists(): follows symbolic links, true for any kind of
\* entry, false for a dangling link.
DataExists(d) == d \in {"dir", "file"}

\* A bug: whatever is in the way is replaced by the new directory.
MkdirForce(f) ==
    IF f.cwdWritable
    THEN [raised |-> FALSE, fs |-> [f EXCEPT !.data = "dir"]]
    ELSE [raised |-> TRUE, fs |-> f]

\* Path('data').mkdir(): creates the directory, or raises FileExistsError
\* (an entry of that name is there, a dangling link included) or
\* PermissionError (the working directory cannot be written).
Mkdir(f) ==
    IF f.data = "absent" /\ f.cwdWritable
    THEN [raised |-> FALSE, fs |-> [f EXCEPT !.data = "dir"]]
    ELSE [raised |-> TRUE, fs |-> f]

\* A bug: the check reports whether the folder was there.
DataFolderVerdictStrict(existed) == existed

\* Line 104: the value returned, whether or not the folder had to be made.
DataFolderVerdict(existed) == TRUE

check_data_folder(f) ==
    IF DataExists(f.data)
    THEN [raised |-> FALSE, ret |-> DataFolderVerdict(TRUE), fs |-> f,
          writes |-> 0]
    ELSE LET made == Mkdir(f)
         IN  IF made.raised
             THEN [raised |-> TRUE, ret |-> FALSE, fs |-> made.fs, writes |-> 0]
             ELSE [raised |-> FALSE, ret |-> DataFolderVerdict(FALSE),
                   fs |-> made.fs, writes |-> 1]

(***************************************************************************)
(* check_dependencies                                                      *)
(***************************************************************************)
\* A bug: no except clause, so a missing library raises out of the check.
ImportUnguarded(st) == IF st \in {"ok", "noversion"} THEN "ok" ELSE "raise"

\* One try/import/except ImportError.  A library is "ok", "noversion"
\* (importable, without the attribute __version__), "missing" (import raises
\* ImportError) or "broken" (import raises something else, e.g. SyntaxError).
ImportOutcome(st) ==
    IF st \in {"ok", "noversion"} THEN "ok"
    ELSE IF st = "missing" THEN "ImportError"
    ELSE "raise"

\* A variant without the early returns: every library is probed and the
\* verdict formed at the end.
check_dependencies_probe_all(d) ==
    IF \E k \in 1..3 : ImportOutcome(d[libraries[k]]) = "raise"
          \/ d["discord"] = "noversion"
    THEN [raised |-> TRUE, ret |-> FALSE, attempted |-> libraries,
          at |-> "import"]
    ELSE [raised |-> FALSE,
          ret |-> \A k \in 1..3 : ImportOutcome(d[libraries[k]]) = "ok",
          attempted |-> libraries, at |-> "none"]

\* Lines 111-132.  attempted lists the import statements executed; at names
\* the statement an exception escaped from.
check_dependencies(d) ==
    LET o1 == ImportOutcome(d["discord"])
        o2 == ImportOutcome(d["dotenv"])
        o3 == ImportOutcome(d["aiofiles"])
        a1 == <<"discord">>
        a2 == <<"discord", "dotenv">>
        a3 == <<"discord", "dotenv", "aiofiles">>
        Ret(r, a)   == [raised |-> FALSE, ret |-> r, attempted |-> a,
                        at |-> "none"]
        Raise(a, w) == [raised |-> TRUE, ret |-> FALSE, attempted |-> a,
                        at |-> w]
    IN  IF o1 = "ImportError" THEN Ret(FALSE, a1)
        ELSE IF o1 = "raise" THEN Raise(a1, "import")
        ELSE IF d["discord"] = "noversion" THEN Raise(a1, "discord.__version__")
        ELSE IF o2 = "ImportError" THEN Ret(FALSE, a2)
        ELSE IF o2 = "raise" THEN Raise(a2, "import")
        ELSE IF o3 = "ImportError" THEN Ret(FALSE, a3)
        ELSE IF o3 = "raise" THEN Raise(a3, "import")
        ELSE Ret(TRUE, a3)

(***************************************************************************)
(* The summary of main                                                     *)
(***************************************************************************)
\* A bug: `all_passed = result` in the loop, so the last check decides.
AllPassedLastWins(res) == IF res = <<>> THEN TRUE ELSE res[Len(res)][2]

\* Lines 159-164: all_passed starts true and is cleared by a failed result.
RECURSIVE AllPassed(_)
AllPassed(res) ==
    IF res = <<>> THEN TRUE
    ELSE LET before == AllPassed(SubSeq(res, 1, Len(res) - 1))
         IN  IF ~res[Len(res)][2] THEN FALSE ELSE before

\* A bug: the two branches of line 168 swapped.
GuidanceSwapped(passed) == IF passed THEN "install" ELSE "start"

\* Lines 168-173: the closing message.
Guidance(passed) == IF passed THEN "start" ELSE "install"

(***************************************************************************)
(* State                                                                   *)
(***************************************************************************)
VARIABLES
    fs,         \* the working directory: .env, the required files, commands/,
                \* data and whether entries can be created in it
    deps,       \* the state of each of the three libraries
    pc,         \* where the process is: "idle", "loop", "summary", "done",
                \* "crashed" (an exception left main), "exited"
    i,          \* index into checks of the next iteration of line 150
    results,    \* the list results of main
    calls,      \* the check functions called so far in this run, in order
    missing,    \* the list missing of the last check_env_file
    attempted,  \* the import statements the last check_dependencies executed
    raisedAt,   \* the statement the exception that ended the run came from
    all_passed, \* the local all_passed of main
    guidance,   \* the closing message printed: "none", "start", "install"
    writes,     \* entries this run has created or changed in the directory
    fs0,        \* the working directory when this run started
    hist        \* one record per finished run

vars == <<fs, deps, pc, i, results, calls, missing, attempted, raisedAt,
          all_passed, guidance, writes, fs0, hist>>

\* The locals of a process that has not reached main yet.
Fresh ==
    /\ pc = "idle"
    /\ i = 1
    /\ results = <<>>
    /\ calls = <<>>
    /\ missing = <<>>
    /\ attempted = <<>>
    /\ raisedAt = "none"
    /\ all_passed = FALSE
    /\ guidance = "none"
    /\ writes = 0

\* Subsets of the entries of list s that lack at most MaxMissing of them.
AlmostAll(s) ==
    { Range(s) \ gone : gone \in { g \in SUBSET Range(s) : Cardinality(g) <= MaxMissing } }

\* commands/ is absent, or is there with at most MaxMissing modules gone.
CommandsFolders ==
    { [dir |-> FALSE, modules |-> {}] }
    \cup { [dir |-> TRUE, modules |-> m] : m \in AlmostAll(required_commands) }

Dirs ==
    { [env |-> e, files |-> f, commandsDir |-> c.dir, modules |-> c.modules,
       data |-> d, cwdWritable |-> w] :
        e \in {[kind |-> "absent", text |-> <<>>],
               [kind |-> "unreadable", text |-> <<>>],
               [kind |-> "file", text |-> FullText],
               [kind |-> "file", text |-> NoPrefixText]},
        f \in AlmostAll(required_files),
        c \in CommandsFolders,
        d \in {"absent", "dir", "file", "dangling"},
        w \in BOOLEAN }

Libs ==
    { [discord |-> a, dotenv |-> b, aiofiles |-> c] :
        a \in {"ok", "noversion", "missing", "broken"},
        b \in {"ok", "missing", "broken"},
        c \in {"ok", "missing", "broken"} }

\* Any project directory and any installation of the libraries.
Init ==
    /\ fs \in Dirs
    /\ deps \in Libs
    /\ fs0 = fs
    /\ hist = <<>>
    /\ Fresh

(***************************************************************************)
(* main                                                                    *)
(***************************************************************************)
\* Lines 137-149: the banner, the list checks, results = [].
Main ==
    /\ pc = "idle"
    /\ pc' = "loop"
    /\ i' = 1
    /\ results' = <<>>
    /\ fs0' = fs
    /\ UNCHANGED <<fs, deps, calls, missing, attempted, raisedAt, all_passed,
                   guidance, writes, hist>>

\* Line 150: the loop goes on to the next pair of checks, or ends.
Advance ==
    /\ i' = i + 1
    /\ pc' = IF i = Len(checks) THEN "summary" ELSE "loop"

\* An exception leaves check_func and main: nothing is appended.
Crash(at) ==
    /\ pc' = "crashed"
    /\ raisedAt' = at
    /\ UNCHANGED <<i, results>>

\* Lines 151-152 for the pair the loop is at.
Calling(func) ==
    /\ pc = "loop"
    /\ i <= Len(checks)
    /\ checks[i][2] = func
    /\ calls' = Append(calls, func)

Record(result) ==
    /\ results' = Append(results, <<checks[i][1], result>>)
    /\ raisedAt' = raisedAt
    /\ Advance

CallCheckEnvFile ==
    /\ Calling("check_env_file")
    /\ LET r == check_env_file(fs.env)
       IN  /\ missing' = r.missing
           /\ IF r.raised THEN Crash("open") ELSE Record(r.ret)
    /\ UNCHANGED <<fs, deps, attempted, all_passed, guidance, writes, fs0, hist>>

CallCheckRequiredFiles ==
    /\ Calling("check_required_files")
    /\ Record(check_required_files(fs))
    /\ UNCHANGED <<fs, deps, missing, attempted, all_passed, guidance, writes,
                   fs0, hist>>

CallCheckCommandsFolder ==
    /\ Calling("check_commands_folder")
    /\ Record(check_commands_folder(fs))
    /\ UNCHANGED <<fs, deps, missing, attempted, all_passed, guidance, writes,
                   fs0, hist>>

CallCheckDataFolder ==
    /\ Calling("check_data_folder")
    /\ LET r == check_data_folder(fs)
       IN  /\ fs' = r.fs
           /\ writes' = writes + r.writes
           /\ IF r.raised THEN Crash("mkdir") ELSE Record(r.ret)
    /\ UNCHANGED <<deps, missing, attempted, all_passed, guidance, fs0, hist>>

CallCheckDependencies ==
    /\ Calling("check_dependencies")
    /\ LET r == check_dependencies(deps)
       IN  /\ attempted' = r.attempted
           /\ IF r.raised THEN Crash(r.at) ELSE Record(r.ret)
    /\ UNCHANGED <<fs, deps, missing, all_passed, guidance, writes, fs0, hist>>

\* Lines 154-175: the summary table, the verdict and the closing message.
Summary ==
    /\ pc = "summary"
    /\ all_passed' = AllPassed(results)
    /\ guidance' = Guidance(AllPassed(results))
    /\ pc' = "done"
    /\ UNCHANGED <<fs, deps, i, results, calls, missing, attempted, raisedAt,
                   writes, fs0, hist>>

\* Lines 178-179: main has returned or raised and the process ends.
Exit ==
    /\ pc \in {"done", "crashed"}
    /\ hist' = Append(hist, [fs0 |-> fs0, fsEnd |-> fs, end |-> pc,
                             results |-> results, calls |-> calls,
                             all_passed |-> all_passed, guidance |-> guidance,
                             raisedAt |-> raisedAt, writes |-> writes])
    /\ pc' = "exited"
    /\ UNCHANGED <<fs, deps, i, results, calls, missing, attempted, raisedAt,
                   all_passed, guidance, writes, fs0>>

\* The script is started again; a new process has fresh locals.
Restart ==
    /\ pc' = "idle"
    /\ i' = 1
    /\ results' = <<>>
    /\ calls' = <<>>
    /\ missing' = <<>>
    /\ attempted' = <<>>
    /\ raisedAt' = "none"
    /\ all_passed' = FALSE
    /\ guidance' = "none"
    /\ writes' = 0

\* A second invocation, nothing else having touched the directory.
Rerun ==
    /\ pc = "exited"
    /\ Len(hist) < MaxRuns
    /\ Restart
    /\ fs0' = fs
    /\ UNCHANGED <<fs, deps, hist>>

Next ==
    \/ Main
    \/ CallCheckEnvFile
    \/ CallCheckRequiredFiles
    \/ CallCheckCommandsFolder
    \/ CallCheckDataFolder
    \/ CallCheckDependencies
    \/ Summary
    \/ Exit
    \/ Rerun

Spec == Init /\ [][Next]_vars

(***************************************************************************)
(* check_env_file over many texts: a complete project whose .env is        *)
(* absent, unreadable, or any text of at most MaxFrags pieces.             *)
(***************************************************************************)
InitEnv ==
    /\ fs \in { [env |-> e, files |-> Range(required_files),
                 commandsDir |-> TRUE, modules |-> Range(required_commands),
                 data |-> d, cwdWritable |-> TRUE] :
                  e \in {[kind |-> "absent", text |-> <<>>],
                         [kind |-> "unreadable", text |-> <<>>]}
                        \cup { [kind |-> "file", text |-> t] : t \in Texts(MaxFrags) },
                  d \in {"absent", "dir"} }
    /\ deps = [discord |-> "ok", dotenv |-> "ok", aiofiles |-> "ok"]
    /\ fs0 = fs
    /\ hist = <<>>
    /\ Fresh

SpecEnv == InitEnv /\ [][Next]_vars

(***************************************************************************)
(* Two runs from directories that differ in one command module: after the  *)
(* first run the directory is put back as it was when that run started,    *)
(* with one module of commands/ added or removed, and the script is run    *)
(* again.  This step is the experiment's, not the script's.                *)
(***************************************************************************)
Toggle(set, m) == IF m \in set THEN set \ {m} ELSE set \cup {m}

RerunToggled ==
    /\ pc = "exited"
    /\ Len(hist) < MaxRuns
    /\ \E m \in Range(required_commands) :
          fs' = [hist[1].fs0 EXCEPT !.modules = Toggle(@, m)]
    /\ fs0' = fs'
    /\ Restart
    /\ UNCHANGED <<deps, hist>>

InitPair ==
    /\ fs \in { f \in Dirs : f.commandsDir /\ f.env.kind # "absent" }
    /\ deps \in { d \in Libs : /\ d.discord \in {"ok", "missing"}
                               /\ d.dotenv = "ok"
                               /\ d.aiofiles = "ok" }
    /\ fs0 = fs
    /\ hist = <<>>
    /\ Fresh

NextPair ==
    \/ Main
    \/ CallCheckEnvFile
    \/ CallCheckRequiredFiles
    \/ CallCheckCommandsFolder
    \/ CallCheckDataFolder
    \/ CallCheckDependencies
    \/ Summary
    \/ Exit
    \/ RerunToggled

SpecPair == InitPair /\ [][NextPair]_vars

(***************************************************************************)
(* Properties                                                              *)
(***************************************************************************)
\* What a results list says of the check called name.
Outcome(res, name) ==
    IF \E k \in 1..Len(res) : res[k][1] = name
    THEN LET k == CHOOSE n \in 1..Len(res) : res[n][1] = name
         IN  IF res[k][2] THEN "PASS" ELSE "FAIL"
    ELSE "none"

\* var is spelled out in text from some position on.
OccursIn(var, text) ==
    \E start \in 1..Len(text) :
        \A j \in 1..Len(var) :
            /\ start + j - 1 <= Len(text)
            /\ text[start + j - 1] = var[j]

KeyNames == {DISCORD_TOKEN, OWNER_ID, PREFIX}

KeyRank(var) == IF var = DISCORD_TOKEN THEN 1 ELSE IF var = OWNER_ID THEN 2 ELSE 3

AllFilesThere ==
    /\ fs.files = {"bot.py", "data_manager.py", "requirements.txt"}
    /\ fs.commandsDir
    /\ fs.modules = {"economy.py", "teams.py", "marketplace.py", "moderation.py",
                     "server_build.py", "help_admin.py"}

AllLibsResolve ==
    \A lib \in {"discord", "dotenv", "aiofiles"} : deps[lib] \in {"ok", "noversion"}

EnvComplete ==
    /\ fs.env.kind = "file"
    /\ \A var \in KeyNames : OccursIn(var, fs.env.text)

\* C1: in a run that reaches the summary the five checks were each called
\* once, in the fixed order, whatever the earlier ones returned; results
\* holds the five (name, outcome) pairs in that order; and all_passed is
\* true exactly when all five outcomes are true.
C1_FiveChecksInOrder ==
    pc \in {"summary", "done"} =>
        /\ calls = <<"check_env_file", "check_required_files",
                     "check_commands_folder", "check_data_folder",
                     "check_dependencies">>
        /\ Len(results) = 5
        /\ <<results[1][1], results[2][1], results[3][1], results[4][1],
             results[5][1]>>
             = <<"Environment File", "Required Files", "Commands Modules",
                 "Data Folder", "Dependencies">>
        /\ pc = "done" => (all_passed <=> \A k \in 1..5 : results[k][2])

\* A finished run whose first check failed and whose last check passed.
C1_Witness ==
    /\ pc = "done"
    /\ ~results[1][2]
    /\ results[5][2]
    /\ ~all_passed

\* C2: once check_env_file has returned, it returned pass exactly when .env
\* exists and each of the three key names occurs in its text; and when the
\* file exists and some name does not occur, it returned fail and the list
\* it reported holds exactly the names that do not occur, in the order
\* DISCORD_TOKEN, OWNER_ID, PREFIX.
C2_EnvCheckBySubstring ==
    Len(results) >= 1 =>
        /\ results[1][1] = "Environment File"
        /\ results[1][2] <=> EnvComplete
        /\ (fs.env.kind = "file" /\ ~EnvComplete) =>
              /\ ~results[1][2]
              /\ Range(missing) = { var \in KeyNames : ~OccursIn(var, fs.env.text) }
              /\ \A a, b \in 1..Len(missing) :
                    a < b => KeyRank(missing[a]) < KeyRank(missing[b])

\* A .env that begins with a comment mark, in which only OWNER_ID occurs.
C2_Witness ==
    /\ Len(results) >= 1
    /\ fs.env.kind = "file"
    /\ Len(fs.env.text) > 0
    /\ fs.env.text[1] = "#"
    /\ ~results[1][2]
    /\ missing = <<DISCORD_TOKEN, PREFIX>>

\* C3: a run that calls check_data_folder with data absent and the working
\* directory writable leaves data a directory and reports pass for the
\* check; the next run starts with the directory there, reports pass for the
\* check too and writes nothing.
C3_CreateThenNoWrite ==
    \A k \in 1..Len(hist) :
        ( /\ hist[k].fs0.data = "absent"
          /\ hist[k].fs0.cwdWritable
          /\ \E n \in 1..Len(hist[k].calls) : hist[k].calls[n] = "check_data_folder" )
        => /\ hist[k].fsEnd.data = "dir"
           /\ hist[k].writes = 1
           /\ Outcome(hist[k].results, "Data Folder") = "PASS"
           /\ k + 1 <= Len(hist) =>
                 /\ hist[k + 1].fs0.data = "dir"
                 /\ Outcome(hist[k + 1].results, "Data Folder") = "PASS"
                 /\ hist[k + 1].writes = 0
                 /\ hist[k + 1].fsEnd = hist[k + 1].fs0

\* Two runs: the first made the directory, the second found it.
C3_Witness ==
    /\ Len(hist) >= 2
    /\ hist[1].fs0.data = "absent"
    /\ hist[1].writes = 1
    /\ hist[2].writes = 0
    /\ Outcome(hist[2].results, "Data Folder") = "PASS"

\* C4 as stated: with all required files and command modules present and the
\* three libraries resolvable, a finished run has verdict pass and shows the
\* success guidance, whatever the state of .env.
C4_PassWithoutEnv ==
    (pc = "done" /\ AllFilesThere /\ AllLibsResolve) =>
        (all_passed /\ guidance = "start")

\* C4 amended: with, in addition, a .env in which the three key names occur,
\* a finished run has verdict pass and shows the success guidance.
C4_PassWithEnv ==
    (pc = "done" /\ AllFilesThere /\ AllLibsResolve /\ EnvComplete) =>
        (all_passed /\ guidance = "start")

\* A finished run of a complete project.
C4_Witness ==
    /\ pc = "done"
    /\ AllFilesThere
    /\ AllLibsResolve
    /\ EnvComplete
    /\ guidance = "start"

\* The directories differ in the presence of one module of commands/ only.
OneModuleApart(a, b) ==
    /\ a.commandsDir
    /\ b.commandsDir
    /\ [a EXCEPT !.modules = {}] = [b EXCEPT !.modules = {}]
    /\ Cardinality((a.modules \ b.modules) \cup (b.modules \ a.modules)) = 1

\* C5: of two runs started from directories that differ only in one command
\* module, the one started without the module reports fail for the commands
\* check (when it gets to call it), and both report the same for the
\* required-files check and for the data-folder check.
C5_Independence ==
    \A k \in 2..Len(hist) :
        OneModuleApart(hist[1].fs0, hist[k].fs0) =>
            /\ \A r \in {1, k} :
                  ( /\ Cardinality(hist[r].fs0.modules) < 6
                    /\ Len(hist[r].calls) >= 3 )
                  => Outcome(hist[r].results, "Commands Modules") = "FAIL"
            /\ Outcome(hist[1].results, "Required Files")
                 = Outcome(hist[k].results, "Required Files")
            /\ Outcome(hist[1].results, "Data Folder")
                 = Outcome(hist[k].results, "Data Folder")

\* The first run had every module and made data; the second lacked one.
C5_Witness ==
    /\ Len(hist) >= 2
    /\ OneModuleApart(hist[1].fs0, hist[2].fs0)
    /\ hist[1].writes = 1
    /\ Outcome(hist[1].results, "Commands Modules") = "PASS"
    /\ Outcome(hist[2].results, "Commands Modules") = "FAIL"
    /\ Outcome(hist[2].results, "Required Files") = "PASS"
    /\ Outcome(hist[2].results, "Data Folder") = "PASS"

\* C6: a run and the run after it, nothing but the script having touched the
\* directory or the libraries in between, end the same way, with the same
\* outcome for every check and the same verdict and guidance.
C6_Idempotent ==
    \A k \in 1..(Len(hist) - 1) :
        hist[k + 1].fs0 = hist[k].fsEnd =>
        /\ hist[k + 1].end = hist[k].end
        /\ hist[k + 1].results = hist[k].results
        /\ hist[k + 1].all_passed = hist[k].all_passed
        /\ hist[k + 1].guidance = hist[k].guidance

\* The first of two finished runs made the data directory.
C6_Witness ==
    /\ Len(hist) >= 2
    /\ hist[1].end = "done"
    /\ hist[1].writes = 1
    /\ hist[2].end = "done"

\* C7 as stated: a run that an error ended was ended by the creation of the
\* data directory.
C7_OnlyMkdirRaises ==
    pc = "crashed" => raisedAt = "mkdir"

\* C7 amended: absent files, folders and key names and libraries whose
\* import raises ImportError never end a run; a run that an error ended was
\* ended by reading a .env that exists and cannot be read, by creating the
\* data directory, by an import that raised something other than
\* ImportError, or by reading discord.__version__ where there is none.
C7_WhatRaises ==
    pc = "crashed" =>
        \/ /\ raisedAt = "open"
           /\ fs.env.kind = "unreadable"
           /\ Len(calls) = 1
        \/ /\ raisedAt = "mkdir"
           /\ fs.data = "dangling" \/ (fs.data = "absent" /\ ~fs.cwdWritable)
           /\ Len(calls) = 4
        \/ /\ raisedAt = "import"
           /\ \E lib \in {"discord", "dotenv", "aiofiles"} : deps[lib] = "broken"
           /\ Len(calls) = 5
        \/ /\ raisedAt = "discord.__version__"
           /\ deps["discord"] = "noversion"
           /\ Len(calls) = 5

\* A run ended by something other than mkdir, after a missing key name and
\* a missing file were reported as failures.
C7_Witness ==
    /\ pc = "crashed"
    /\ raisedAt = "discord.__version__"
    /\ Len(results) = 4
    /\ ~results[1][2]
    /\ ~results[2][2]

\* C8: a step changes the working directory only if it is the call of
\* check_data_folder, no entry named data was there, and the change is that
\* data is now a directory, every other entry being as it was.
C8_Frame ==
    [][ fs' # fs =>
          /\ pc = "loop"
          /\ checks[i][2] = "check_data_folder"
          /\ fs.data = "absent"
          /\ fs' = [fs EXCEPT !.data = "dir"] ]_vars

\* A finished run that made the data directory and changed nothing else.
C8_Witness ==
    /\ pc = "done"
    /\ fs0.data = "absent"
    /\ fs # fs0
    /\ fs = [fs0 EXCEPT !.data = "dir"]

\* The libraries up to and including the first one that is not installed.
ProbedUntilMissing ==
    IF deps["discord"] = "missing" THEN <<"discord">>
    ELSE IF deps["dotenv"] = "missing" THEN <<"discord", "dotenv">>
    ELSE <<"discord", "dotenv", "aiofiles">>

\* C9 as stated: whenever check_dependencies has returned it has tried to
\* import all three libraries, and it returned pass exactly when none of
\* them failed to resolve.
C9_ProbesAllThree ==
    Len(results) = 5 =>
        /\ attempted = <<"discord", "dotenv", "aiofiles">>
        /\ results[5][2] <=>
              \A lib \in {"discord", "dotenv", "aiofiles"} : deps[lib] # "missing"

\* C9 amended: check_dependencies imports discord, dotenv and aiofiles in
\* that order and returns fail at the first that fails to resolve, without
\* trying the later ones; it returns pass exactly when all three resolved.
C9_StopsAtFirstMissing ==
    Len(results) = 5 =>
        /\ attempted = ProbedUntilMissing
        /\ results[5][2] <=>
              \A lib \in {"discord", "dotenv", "aiofiles"} : deps[lib] # "missing"

\* discord is missing and dotenv, which would raise, is never imported.
C9_Witness ==
    /\ pc = "done"
    /\ deps["discord"] = "missing"
    /\ deps["dotenv"] = "broken"
    /\ attempted = <<"discord">>
    /\ ~results[5][2]

\* C10: once check_data_folder has returned, it returned true and data is a
\* directory.
C10_DataIsDirectory ==
    Outcome(results, "Data Folder") # "none" =>
        /\ Outcome(results, "Data Folder") = "PASS"
        /\ fs.data = "dir"

====
